---- MODULE Spec2Model ----
(***************************************************************************)
(* Tpedia: a terminal client for searching and reading encyclopedia        *)
(* articles (src/src/main.rs).  The model covers the two threads of main:  *)
(* the input pump (the spawned thread that polls the keyboard and emits    *)
(* key and tick messages) and the main loop (draw a frame, receive one     *)
(* message, dispatch it on the local variables of main).                   *)
(***************************************************************************)
EXTENDS Integers, Sequences, FiniteSets, TLC

(***************************************************************************)
(* Bounds of the model.                                                    *)
(***************************************************************************)
\* longest search string typed
MaxQuery == 2
\* most hits a search returns, and the number of distinct pages
MaxHits == 3
\* furthest an article is scrolled
MaxScroll == 1
\* most messages waiting in the channel (the channel itself is unbounded)
MaxChan == 2

(***************************************************************************)
(* Program constants.                                                      *)
(***************************************************************************)
\* largest value of scroll: u16
U16_MAX == 65535

\* Option<T>: None is the empty sequence, Some(x) the one-element sequence
None == <<>>
Some(x) == <<x>>

\* MenuItem
MenuItem == {"Home", "Results"}

\* KeyCode values the model types; the characters are the four the global
\* key block gives a meaning to, so each is both a command and plain text
CharKeys == {"q", "h", "r", "s"}
KeyCode == CharKeys \cup {"Backspace", "Enter", "Esc", "Down", "Up"}

\* the keys typed while messages are left to queue up
QueueKeys == {"s", "Enter", "Esc", "Down"}

\* Event<I>: Input(key) is the key code itself, Tick is "Tick"
Tick == "Tick"
Event == KeyCode \cup {Tick}

\* page ids of the encyclopedia
PageIds == 1..MaxHits

RECURSIVE SeqsUpTo(_, _)
\* all sequences over S of length at most n
SeqsUpTo(S, n) ==
    IF n = 0 THEN {<<>>}
    ELSE LET shorter == SeqsUpTo(S, n - 1)
         IN  shorter \cup {Append(q, x) : q \in {r \in shorter : Len(r) = n - 1}, x \in S}

\* Search records are identified by their pageid.  The result lists the
\* model lets a search return: for each length up to MaxHits the pages
\* 1..n in rising and in falling rank order
HitLists ==
    {[i \in 1..n |-> i] : n \in 0..MaxHits} \cup {[i \in 1..n |-> n + 1 - i] : n \in 0..MaxHits}

\* outcome of search(search_string): Err / undecodable answer, or
\* Ok(res) with res.query.search = hits
SearchOutcomes == {[ok |-> FALSE, hits |-> <<>>]} \cup {[ok |-> TRUE, hits |-> h] : h \in HitLists}
NoSearch == [ok |-> TRUE, hits |-> <<>>]

\* the text fetch_html returns for a page
ArticleText(pageid) == [article |-> pageid]

VARIABLES
    search_mode,            \* let mut search_mode
    active_menu_item,       \* let mut active_menu_item
    search_string,          \* let mut search_string
    selected,               \* search_result_list_state.selected()
    current_search_results, \* let mut current_search_results
    is_selected,            \* let mut is_selected
    scroll,                 \* let mut scroll: u16
    current_content,        \* let mut current_content
    raw_mode,               \* terminal raw mode (enable_raw_mode / disable_raw_mode)
    main_pc,                \* main: "draw", "recv", or how it ended: "exited", "error", "panicked"
    fault,                  \* what ended main, "none" while it runs
    chan,                   \* messages sent on tx and not yet received on rx
    pump,                   \* pump thread: "running", "poll_panicked", "send_panicked", "killed"
    handled,                \* history: the message taken by the last recv, None once its frame is drawn
    fetches,                \* history: page ids fetch_html was called with since an article was last opened
    searched,               \* history: Some(hits) of the search the last recv ran, None once its frame is drawn
    text,                   \* fetch_html: the text on its way through the pipeline
    stage                   \* fetch_html: the last step done on text, "idle" outside a call

vars == <<search_mode, active_menu_item, search_string, selected, current_search_results,
          is_selected, scroll, current_content, raw_mode, main_pc, fault, chan, pump,
          handled, fetches, searched, text, stage>>

\* the locals of main as one record
App ==
    [search_mode |-> search_mode, active_menu_item |-> active_menu_item,
     search_string |-> search_string, selected |-> selected,
     current_search_results |-> current_search_results, is_selected |-> is_selected,
     scroll |-> scroll, current_content |-> current_content, raw_mode |-> raw_mode,
     pc |-> main_pc, fault |-> fault, fetches |-> fetches]

\* assigns the record s to the primed locals of main
Assign(s) ==
    /\ search_mode' = s.search_mode
    /\ active_menu_item' = s.active_menu_item
    /\ search_string' = s.search_string
    /\ selected' = s.selected
    /\ current_search_results' = s.current_search_results
    /\ is_selected' = s.is_selected
    /\ scroll' = s.scroll
    /\ current_content' = s.current_content
    /\ raw_mode' = s.raw_mode
    /\ main_pc' = s.pc
    /\ fault' = s.fault
    /\ fetches' = s.fetches

\* a panic of the main thread: the process ends, nothing is restored
Panic(s, msg) == [s EXCEPT !.pc = "panicked", !.fault = msg]

\* main returns Err through `?`
Fail(s, msg) == [s EXCEPT !.pc = "error", !.fault = msg]

MainRunning == main_pc \in {"draw", "recv"}
MainEnded == main_pc \in {"exited", "error", "panicked"}

(***************************************************************************)
(* State after the declarations of main, before the first draw.            *)
(***************************************************************************)
Init ==
    /\ raw_mode = TRUE
    /\ search_mode = FALSE
    /\ chan = <<>>
    /\ pump = "running"
    /\ active_menu_item = "Home"
    /\ search_string = <<>>
    /\ selected = Some(0)
    /\ current_search_results = <<>>
    /\ is_selected = FALSE
    /\ scroll = 0
    /\ current_content = None
    /\ main_pc = "draw"
    /\ fault = "none"
    /\ handled = None
    /\ fetches = <<>>
    /\ searched = None
    /\ text = <<>>
    /\ stage = "idle"

(***************************************************************************)
(* Key dispatch of the main loop.  Each block of the match is an operator  *)
(* from the locals of main (a record like App) to the locals after it.     *)
(***************************************************************************)

\* search_string.pop(): drops the last character, nothing on an empty string
Pop(str) == IF Len(str) = 0 THEN str ELSE SubSeq(str, 1, Len(str) - 1)

\* SearchModeKey with search_result_list_state.select(Some(0)) left out of
\* the Enter arm
SearchModeKey_KeepsCursor(s, code, res) ==
    CASE code \in CharKeys -> [s EXCEPT !.search_string = Append(@, code)]
      [] code = "Backspace" -> [s EXCEPT !.search_string = Pop(@)]
      [] code = "Enter" ->
            IF ~res.ok
            THEN Panic(s, "search failed")
            ELSE [s EXCEPT !.current_search_results = res.hits,
                           !.search_mode = FALSE,
                           !.active_menu_item = "Results",
                           !.is_selected = FALSE]
      [] code = "Esc" -> [s EXCEPT !.search_mode = FALSE]
      [] OTHER -> s

\* SearchModeKey whose Enter arm leaves is_selected alone
SearchModeKey_KeepsArticle(s, code, res) ==
    CASE code \in CharKeys -> [s EXCEPT !.search_string = Append(@, code)]
      [] code = "Backspace" -> [s EXCEPT !.search_string = Pop(@)]
      [] code = "Enter" ->
            IF ~res.ok
            THEN Panic(s, "search failed")
            ELSE [s EXCEPT !.current_search_results = res.hits,
                           !.search_mode = FALSE,
                           !.active_menu_item = "Results",
                           !.selected = Some(0)]
      [] code = "Esc" -> [s EXCEPT !.search_mode = FALSE]
      [] OTHER -> s

\* keys while search_mode is set; res is the outcome of the search call
SearchModeKey(s, code, res) ==
    CASE code \in CharKeys -> [s EXCEPT !.search_string = Append(@, code)]
      [] code = "Backspace" -> [s EXCEPT !.search_string = Pop(@)]
      [] code = "Enter" ->
            IF ~res.ok
            THEN Panic(s, "search failed")
            ELSE [s EXCEPT !.current_search_results = res.hits,
                           !.search_mode = FALSE,
                           !.active_menu_item = "Results",
                           !.is_selected = FALSE,
                           !.selected = Some(0)]
      [] code = "Esc" -> [s EXCEPT !.search_mode = FALSE]
      [] OTHER -> s

\* scroll += 1 on a u16: past U16_MAX a build with overflow checks panics,
\* a build without them wraps to 0
ScrollDown(s, checked) ==
    IF s.scroll = U16_MAX
    THEN IF checked THEN Panic(s, "attempt to add with overflow") ELSE [s EXCEPT !.scroll = 0]
    ELSE [s EXCEPT !.scroll = @ + 1]

\* if scroll > 0 { scroll -= 1 }
ScrollUp(s) == IF s.scroll > 0 THEN [s EXCEPT !.scroll = @ - 1] ELSE s

\* ArticleKey whose Esc arm resets the scroll offset instead of is_selected
ArticleKey_EscKeepsOpen(s, code, checked) ==
    CASE code = "Esc" -> [s EXCEPT !.scroll = 0]
      [] code = "Down" -> ScrollDown(s, checked)
      [] code = "Up" -> ScrollUp(s)
      [] OTHER -> s

\* keys while an article is open (is_selected) and search_mode is clear
ArticleKey(s, code, checked) ==
    CASE code = "Esc" -> [s EXCEPT !.is_selected = FALSE]
      [] code = "Down" -> ScrollDown(s, checked)
      [] code = "Up" -> ScrollUp(s)
      [] OTHER -> s

\* SelectNext comparing with > where the code compares with >=
SelectNext_OffByOne(s, checked) ==
    IF s.selected = None THEN s
    ELSE LET sel == s.selected[1]
             amount_results == Len(s.current_search_results)
             at_end == IF amount_results = 0 THEN FALSE ELSE sel > amount_results - 1
         IN  IF amount_results = 0 /\ checked
             THEN Panic(s, "attempt to subtract with overflow")
             ELSE IF at_end /\ amount_results # 0
                  THEN [s EXCEPT !.selected = Some(0)]
                  ELSE IF amount_results # 0
                       THEN [s EXCEPT !.selected = Some(sel + 1)]
                       ELSE s

\* Down on the result list.  amount_results - 1 is computed first, on a
\* usize: for an empty list a build with overflow checks panics there, a
\* build without them gets usize::MAX, which no index reaches
SelectNext(s, checked) ==
    IF s.selected = None THEN s
    ELSE LET sel == s.selected[1]
             amount_results == Len(s.current_search_results)
             at_end == IF amount_results = 0 THEN FALSE ELSE sel >= amount_results - 1
         IN  IF amount_results = 0 /\ checked
             THEN Panic(s, "attempt to subtract with overflow")
             ELSE IF at_end /\ amount_results # 0
                  THEN [s EXCEPT !.selected = Some(0)]
                  ELSE IF amount_results # 0
                       THEN [s EXCEPT !.selected = Some(sel + 1)]
                       ELSE s

\* SelectPrevious that stays on the first row instead of wrapping
SelectPrevious_StopsAtTop(s) ==
    IF s.selected = None THEN s
    ELSE LET sel == s.selected[1]
             amount_results == Len(s.current_search_results)
         IN  IF sel > 0 /\ amount_results # 0
             THEN [s EXCEPT !.selected = Some(sel - 1)]
             ELSE s

\* Up on the result list
SelectPrevious(s) ==
    IF s.selected = None THEN s
    ELSE LET sel == s.selected[1]
             amount_results == Len(s.current_search_results)
         IN  IF sel > 0 /\ amount_results # 0
             THEN [s EXCEPT !.selected = Some(sel - 1)]
             ELSE IF amount_results # 0
                  THEN [s EXCEPT !.selected = Some(amount_results - 1)]
                  ELSE s

\* OpenArticle that keeps the cached body of the article read before
OpenArticle_KeepsContent(s) ==
    [s EXCEPT !.is_selected = TRUE, !.scroll = 0, !.fetches = <<>>]

\* Enter on the result list opens the highlighted hit
OpenArticle(s) ==
    [s EXCEPT !.is_selected = TRUE, !.current_content = None, !.scroll = 0, !.fetches = <<>>]

\* keys on the Results tab with no article open and search_mode clear
ResultsKey(s, code, checked) ==
    CASE code = "Enter" -> OpenArticle(s)
      [] code = "Down" -> SelectNext(s, checked)
      [] code = "Up" -> SelectPrevious(s)
      [] OTHER -> s

\* the first if / else if chain of the Input arm
ModeKey(s, code, res, checked) ==
    IF s.search_mode THEN SearchModeKey(s, code, res)
    ELSE IF s.is_selected THEN ArticleKey(s, code, checked)
    ELSE IF s.active_menu_item = "Results" THEN ResultsKey(s, code, checked)
    ELSE s

\* GlobalKey whose 's' arm also empties search_string
GlobalKey_ClearsQuery(s, code, cursor_ok) ==
    IF s.search_mode THEN s
    ELSE CASE code = "q" ->
                IF cursor_ok
                THEN [s EXCEPT !.raw_mode = FALSE, !.pc = "exited"]
                ELSE Fail([s EXCEPT !.raw_mode = FALSE], "show_cursor failed")
           [] code = "h" -> [s EXCEPT !.active_menu_item = "Home"]
           [] code = "r" -> [s EXCEPT !.active_menu_item = "Results"]
           [] code = "s" -> [s EXCEPT !.search_mode = TRUE, !.search_string = <<>>]
           [] OTHER -> s

\* GlobalKey without the test of search_mode around it
GlobalKey_Ungated(s, code, cursor_ok) ==
    CASE code = "q" ->
            IF cursor_ok
            THEN [s EXCEPT !.raw_mode = FALSE, !.pc = "exited"]
            ELSE Fail([s EXCEPT !.raw_mode = FALSE], "show_cursor failed")
      [] code = "h" -> [s EXCEPT !.active_menu_item = "Home"]
      [] code = "r" -> [s EXCEPT !.active_menu_item = "Results"]
      [] code = "s" -> [s EXCEPT !.search_mode = TRUE]
      [] OTHER -> s

\* the second block of the Input arm, run when search_mode is clear after
\* the first; cursor_ok is the outcome of terminal.show_cursor()
GlobalKey(s, code, cursor_ok) ==
    IF s.search_mode THEN s
    ELSE CASE code = "q" ->
                IF cursor_ok
                THEN [s EXCEPT !.raw_mode = FALSE, !.pc = "exited"]
                ELSE Fail([s EXCEPT !.raw_mode = FALSE], "show_cursor failed")
           [] code = "h" -> [s EXCEPT !.active_menu_item = "Home"]
           [] code = "r" -> [s EXCEPT !.active_menu_item = "Results"]
           [] code = "s" -> [s EXCEPT !.search_mode = TRUE]
           [] OTHER -> s

\* HandleEvent whose Tick arm goes straight back to recv
HandleEvent_TickSkipsDraw(s, msg, res, checked, cursor_ok) ==
    IF msg = Tick THEN s
    ELSE LET s1 == ModeKey(s, msg, res, checked)
         IN  IF s1.pc = "panicked" THEN s1
             ELSE LET s2 == GlobalKey(s1, msg, cursor_ok)
                  IN  IF s2.pc = "recv" THEN [s2 EXCEPT !.pc = "draw"] ELSE s2

\* the whole match on a received message; the loop goes back to draw
\* unless the arm panicked, failed or broke out of the loop
HandleEvent(s, msg, res, checked, cursor_ok) ==
    IF msg = Tick THEN [s EXCEPT !.pc = "draw"]
    ELSE LET s1 == ModeKey(s, msg, res, checked)
         IN  IF s1.pc = "panicked" THEN s1
             ELSE LET s2 == GlobalKey(s1, msg, cursor_ok)
                  IN  IF s2.pc = "recv" THEN [s2 EXCEPT !.pc = "draw"] ELSE s2

(***************************************************************************)
(* Rendering.                                                              *)
(***************************************************************************)

\* get_selected_search: the hit under the cursor, or the message of the
\* expect that fails
GetSelectedSearch(search_results, sel) ==
    IF sel = None THEN [ok |-> FALSE, msg |-> "there is always a selected result"]
    ELSE IF sel[1] >= Len(search_results) THEN [ok |-> FALSE, msg |-> "no search results"]
    ELSE [ok |-> TRUE, hit |-> search_results[sel[1] + 1]]

\* RenderPageContent whose fetched text is not written back to current_content
RenderPageContent_NoWriteBack(s, hit, fetch_ok) ==
    IF s.current_content = None
    THEN IF fetch_ok
         THEN [s EXCEPT !.fetches = Append(@, hit)]
         ELSE Panic([s EXCEPT !.fetches = Append(@, hit)], "fetch failed")
    ELSE s

\* render_page_content and the write-back current_content = Some(res.1):
\* fetch_html is called only when no content is cached; fetch_ok is its outcome
RenderPageContent(s, hit, fetch_ok) ==
    IF s.current_content = None
    THEN IF fetch_ok
         THEN [s EXCEPT !.current_content = Some(ArticleText(hit)),
                        !.fetches = Append(@, hit)]
         ELSE Panic([s EXCEPT !.fetches = Append(@, hit)], "fetch failed")
    ELSE s

\* the closure given to terminal.draw
RenderFrame(s, fetch_ok) ==
    IF s.active_menu_item = "Results" /\ s.is_selected
    THEN LET item == GetSelectedSearch(s.current_search_results, s.selected)
         IN  IF item.ok THEN RenderPageContent(s, item.hit, fetch_ok) ELSE Panic(s, item.msg)
    ELSE s

\* what a frame shows: the tab bar, the search box, the result list with
\* its highlighted row and, while an article is open on the Results tab,
\* the article panel
Frame(s) ==
    [tabs |-> s.active_menu_item,
     search_text |-> s.search_string,
     list |-> IF s.active_menu_item = "Results" THEN Some(s.current_search_results) ELSE None,
     page |-> IF s.active_menu_item = "Results" /\ s.is_selected
              THEN Some([text |-> s.current_content, scroll |-> s.scroll])
              ELSE None]

\* does rendering s call fetch_html
NeedsFetch(s) ==
    /\ s.active_menu_item = "Results"
    /\ s.is_selected
    /\ GetSelectedSearch(s.current_search_results, s.selected).ok
    /\ s.current_content = None

\* the result of terminal.draw(..)?: the closure, then the flush of the frame
DrawResult(s, fetch_ok, io_ok) ==
    LET s1 == RenderFrame(s, fetch_ok)
    IN  IF s1.pc = "panicked" THEN s1
        ELSE IF io_ok THEN [s1 EXCEPT !.pc = "recv"] ELSE Fail(s1, "draw failed")

(***************************************************************************)
(* Actions of the main loop.                                               *)
(***************************************************************************)

\* terminal.draw(..)?
Draw ==
    /\ main_pc = "draw"
    /\ \E fetch_ok \in (IF NeedsFetch(App) THEN BOOLEAN ELSE {TRUE}), io_ok \in BOOLEAN :
           Assign(DrawResult(App, fetch_ok, io_ok))
    /\ handled' = None
    /\ searched' = None
    /\ chan' = IF main_pc' \in {"draw", "recv"} THEN chan ELSE <<>>
    /\ UNCHANGED <<pump, text, stage>>

\* bounds of the model on what a key may grow; the scroll offset is followed
\* at both ends of its range, up to MaxScroll from 0 and from U16_MAX - MaxScroll
WithinBounds(s, msg) ==
    /\ (s.search_mode /\ msg \in CharKeys) => Len(s.search_string) < MaxQuery
    /\ (~s.search_mode /\ s.is_selected /\ msg = "Down") =>
            (s.scroll < MaxScroll \/ s.scroll >= U16_MAX - MaxScroll)
    /\ (~s.search_mode /\ s.is_selected /\ msg = "Up") =>
            (s.scroll <= MaxScroll \/ s.scroll > U16_MAX - MaxScroll)

\* the nondeterministic outcomes a message can meet
Searches(s, msg) == IF s.search_mode /\ msg = "Enter" THEN SearchOutcomes ELSE {NoSearch}
Builds(s, msg) ==
    IF /\ ~s.search_mode
       /\ msg = "Down"
       /\ \/ s.is_selected /\ s.scroll = U16_MAX
          \/ ~s.is_selected /\ s.active_menu_item = "Results" /\ s.current_search_results = <<>>
    THEN BOOLEAN ELSE {TRUE}
CursorOutcomes(s, msg) == IF ~s.search_mode /\ msg = "q" THEN BOOLEAN ELSE {TRUE}

\* match rx.recv()? { .. } on the message msg, rest being what stays queued;
\* a main thread that ends drops rx and with it the queued messages
Receive(msg, rest) ==
    /\ main_pc = "recv"
    /\ WithinBounds(App, msg)
    /\ \E res \in Searches(App, msg), checked \in Builds(App, msg),
          cursor_ok \in CursorOutcomes(App, msg) :
           /\ Assign(HandleEvent(App, msg, res, checked, cursor_ok))
           /\ searched' = IF search_mode /\ msg = "Enter" /\ res.ok THEN Some(res.hits) ELSE None
    /\ handled' = Some(msg)
    /\ chan' = IF main_pc' \in {"draw", "recv"} THEN rest ELSE <<>>
    /\ UNCHANGED <<pump, text, stage>>

\* Recv taking the newest queued message instead of the oldest
Recv_Newest ==
    /\ chan # <<>>
    /\ Receive(chan[Len(chan)], SubSeq(chan, 1, Len(chan) - 1))

\* rx.recv() takes the oldest queued message
Recv ==
    /\ chan # <<>>
    /\ Receive(Head(chan), Tail(chan))

\* rx.recv()? on an empty channel whose sender is gone: main returns Err
RecvClosed ==
    /\ main_pc = "recv"
    /\ chan = <<>>
    /\ pump # "running"
    /\ Assign(Fail(App, "channel closed"))
    /\ UNCHANGED <<chan, pump, handled, searched, text, stage>>

(***************************************************************************)
(* Actions of the input pump thread.  One step is one send: polling and    *)
(* reading a key touch nothing the main loop sees.                         *)
(***************************************************************************)

\* tx.send(Event::Input(key)).expect(..) with the receiver alive
PumpKey(key) ==
    /\ pump = "running"
    /\ MainRunning
    /\ Len(chan) < MaxChan
    /\ chan' = Append(chan, key)
    /\ UNCHANGED <<search_mode, active_menu_item, search_string, selected,
                   current_search_results, is_selected, scroll, current_content, raw_mode,
                   main_pc, fault, pump, handled, fetches, searched, text, stage>>

\* if let Ok(_) = tx.send(Event::Tick) with the receiver alive
PumpTick ==
    /\ pump = "running"
    /\ MainRunning
    /\ Len(chan) < MaxChan
    /\ chan' = Append(chan, Tick)
    /\ UNCHANGED <<search_mode, active_menu_item, search_string, selected,
                   current_search_results, is_selected, scroll, current_content, raw_mode,
                   main_pc, fault, pump, handled, fetches, searched, text, stage>>

\* a send that finds main blocked in recv on an empty channel: the message
\* is handed over and handled before the pump sends again
Deliver(msg) ==
    /\ pump = "running"
    /\ chan = <<>>
    /\ Receive(msg, <<>>)

\* event::poll(..).expect(..) or event::read().expect(..) fails: the thread
\* panics and drops tx
PumpPollFails ==
    /\ pump = "running"
    /\ MainRunning
    /\ pump' = "poll_panicked"
    /\ UNCHANGED <<search_mode, active_menu_item, search_string, selected,
                   current_search_results, is_selected, scroll, current_content, raw_mode,
                   main_pc, fault, chan, handled, fetches, searched, text, stage>>

\* tx.send(Event::Input(key)).expect("can send events") after rx was
\* dropped: send returns Err and expect panics
PumpKeyAfterClose ==
    /\ pump = "running"
    /\ MainEnded
    /\ pump' = "send_panicked"
    /\ UNCHANGED <<search_mode, active_menu_item, search_string, selected,
                   current_search_results, is_selected, scroll, current_content, raw_mode,
                   main_pc, fault, chan, handled, fetches, searched, text, stage>>

\* if let Ok(_) = tx.send(Event::Tick) after rx was dropped: the Err is
\* ignored, last_tick is not reset and the loop goes on
PumpTickAfterClose ==
    /\ pump = "running"
    /\ MainEnded
    /\ UNCHANGED vars

\* the process ends once main has returned or panicked, and takes the
\* pump thread with it
ProcessExit ==
    /\ MainEnded
    /\ pump = "running"
    /\ pump' = "killed"
    /\ UNCHANGED <<search_mode, active_menu_item, search_string, selected,
                   current_search_results, is_selected, scroll, current_content, raw_mode,
                   main_pc, fault, chan, handled, fetches, searched, text, stage>>

(***************************************************************************)
(* Specifications.  Spec: every message is handled as soon as it is sent   *)
(* (the user types while the program waits), so the channel holds nothing  *)
(* between steps.  The main loop sees the same sequences of messages as    *)
(* with a queue in between, since it depends only on their order.          *)
(* SpecQueue: the pump runs ahead of the main loop and messages wait in    *)
(* the channel.                                                            *)
(***************************************************************************)
Next ==
    \/ Draw
    \/ \E msg \in Event : Deliver(msg)
    \/ RecvClosed
    \/ PumpPollFails
    \/ PumpKeyAfterClose
    \/ PumpTickAfterClose
    \/ ProcessExit

Spec == Init /\ [][Next]_vars

\* an article read after Down was pressed U16_MAX - MaxScroll times: the
\* search for "q" returned one hit, the hit was opened and its frame drawn
InitScroll ==
    /\ raw_mode = TRUE
    /\ search_mode = FALSE
    /\ chan = <<>>
    /\ pump = "running"
    /\ active_menu_item = "Results"
    /\ search_string = <<"q">>
    /\ selected = Some(0)
    /\ current_search_results = <<1>>
    /\ is_selected = TRUE
    /\ scroll = U16_MAX - MaxScroll
    /\ current_content = Some(ArticleText(1))
    /\ main_pc = "recv"
    /\ fault = "none"
    /\ handled = None
    /\ fetches = <<1>>
    /\ searched = None
    /\ text = <<>>
    /\ stage = "idle"

\* the program from there on
SpecScroll == InitScroll /\ [][Next]_vars

NextQueue ==
    \/ Draw
    \/ Recv
    \/ RecvClosed
    \/ \E key \in QueueKeys : PumpKey(key)
    \/ PumpTick
    \/ PumpPollFails
    \/ PumpKeyAfterClose
    \/ PumpTickAfterClose
    \/ ProcessExit

SpecQueue == Init /\ [][NextQueue]_vars

\* is q a sequence over S of length at most n
IsSeqUpTo(q, S, n) == Len(q) <= n /\ \A i \in 1..Len(q) : q[i] \in S

\* is q a list of distinct pages
IsHitList(q) ==
    /\ IsSeqUpTo(q, PageIds, MaxHits)
    /\ \A i, j \in 1..Len(q) : i # j => q[i] # q[j]

\* the values the variables take in the specifications of main (Spec,
\* SpecQueue, SpecScroll), where fetch_html is one step of Draw
TypeOK ==
    /\ search_mode \in BOOLEAN
    /\ active_menu_item \in MenuItem
    /\ IsSeqUpTo(search_string, CharKeys, MaxQuery)
    /\ IsSeqUpTo(selected, 0..MaxHits, 1)
    /\ IsHitList(current_search_results)
    /\ is_selected \in BOOLEAN
    /\ scroll \in (0..MaxScroll) \cup ((U16_MAX - MaxScroll)..U16_MAX)
    /\ IsSeqUpTo(current_content, {ArticleText(p) : p \in PageIds}, 1)
    /\ raw_mode \in BOOLEAN
    /\ main_pc \in {"draw", "recv", "exited", "error", "panicked"}
    /\ IsSeqUpTo(chan, Event, MaxChan)
    /\ pump \in {"running", "poll_panicked", "send_panicked", "killed"}
    /\ IsSeqUpTo(handled, Event, 1)
    /\ IsSeqUpTo(fetches, PageIds, 1)
    /\ searched = None \/ (Len(searched) = 1 /\ IsHitList(searched[1]))
    /\ text = <<>>
    /\ stage = "idle"

(***************************************************************************)
(* Properties.                                                             *)
(***************************************************************************)

\* the three modes of the interface, read off the two flags as the key
\* dispatch reads them
Searching == search_mode
Reading == ~search_mode /\ is_selected
Normal == ~search_mode /\ ~is_selected

\* the step is the main loop handling the key code
Handles(code) == main_pc = "recv" /\ handled' = Some(code)

\* the frame of a completed search: Enter was handled in the search box
AfterSearch ==
    /\ main_pc = "draw"
    /\ handled = Some("Enter")
    /\ ~is_selected
    /\ active_menu_item = "Results"

C2_ModesExclusive == ~(search_mode /\ is_selected)

\* C3: drawing a frame never crashes on a missing selected hit.
C3_DrawNeverCrashes == fault \notin {"no search results", "there is always a selected result"}

\* C4: with an empty result list, Down or Up in Normal mode on the Results
\* tab changes nothing and the main loop goes on to draw the next frame.
C4_DownUpOnEmptyIsNoOp ==
    [][(/\ Normal
        /\ active_menu_item = "Results"
        /\ current_search_results = <<>>
        /\ (Handles("Down") \/ Handles("Up")))
       => (/\ main_pc' = "draw"
           /\ fault' = "none"
           /\ UNCHANGED <<search_mode, active_menu_item, search_string, selected,
                          current_search_results, is_selected, scroll, current_content,
                          raw_mode>>)]_vars

\* C5: whenever the main thread has ended, raw mode has been left.
C5_RawModeRestored == MainEnded => ~raw_mode

\* the hit under the cursor
SelectedHit == current_search_results[selected[1] + 1]

\* C6: while an article is open fetch_html has been called at most once
\* since it was opened, and once its first frame is drawn exactly once,
\* with the page id of the opened hit; later frames add no call.
C6_FetchedOncePerOpenedArticle ==
    (is_selected /\ MainRunning) =>
        /\ Len(fetches) <= 1
        /\ main_pc = "recv" => fetches = <<SelectedHit>>
        /\ fetches = <<>> <=> current_content = None

\* C6 witness: an article that is not the first hit has stayed open over
\* several frames: it was scrolled, the tab was switched and the search
\* box was entered
C6_Witness ==
    /\ is_selected
    /\ search_mode
    /\ main_pc = "recv"
    /\ scroll > 0
    /\ active_menu_item = "Home"
    /\ selected = Some(1)
    /\ fetches = <<SelectedHit>>

\* C7: whenever the result list is not empty the selected index is Some(i)
\* with 0 <= i < len(results).
C7_SelectedInRange ==
    current_search_results # <<>> =>
        /\ selected # None
        /\ selected[1] \in 0..(Len(current_search_results) - 1)

\* C7 witness: a search has just left a list of one hit, after an article
\* that is only in the longest lists had been opened
C7_Witness ==
    /\ AfterSearch
    /\ Len(current_search_results) = 1
    /\ current_content = Some(ArticleText(MaxHits))
    /\ selected = Some(0)

\* one turn of the main loop on a key, from recv to recv: the key is
\* handled and the next frame drawn, no call failing
Turn(s, code) == DrawResult(HandleEvent(s, code, NoSearch, TRUE, TRUE), TRUE, TRUE)

RECURSIVE Press(_, _, _)
\* k turns of the main loop on the same key
Press(s, code, k) == IF k = 0 THEN s ELSE Press(Turn(s, code), code, k - 1)

\* C8: in Normal mode on the Results tab with n > 0 results, n presses of
\* Down bring the selected index back to where it was, and so do n presses
\* of Up; Down on the last row goes to row 0 and Up on row 0 to the last.
C8_WrapAround ==
    (Normal /\ main_pc = "recv" /\ active_menu_item = "Results" /\ current_search_results # <<>>) =>
        LET n == Len(current_search_results)
        IN  /\ Press(App, "Down", n).selected = selected
            /\ Press(App, "Up", n).selected = selected
            /\ selected = Some(n - 1) => Press(App, "Down", 1).selected = Some(0)
            /\ selected = Some(0) => Press(App, "Up", 1).selected = Some(n - 1)
            /\ \A k \in 1..(n - 1) : Press(App, "Down", k).selected # selected

\* C8 witness: Down has just wrapped from the last row of a list of
\* several hits to row 0
C8_Witness ==
    /\ Normal
    /\ main_pc = "draw"
    /\ handled = Some("Down")
    /\ active_menu_item = "Results"
    /\ Len(current_search_results) = MaxHits
    /\ selected = Some(0)
    /\ current_content = None

\* C9: Esc while Reading leaves Normal mode with no article panel in the
\* frame, whatever the scroll offset and the cached body were; Enter on the
\* result list opens an article with no body and scroll offset 0.
C9_EscapeClosesArticle ==
    [][/\ (Reading /\ Handles("Esc")) =>
            (/\ main_pc' = "draw"
             /\ ~search_mode' /\ ~is_selected'
             /\ Frame(App)'.page = None)
       /\ (Normal /\ active_menu_item = "Results" /\ Handles("Enter")) =>
            (/\ is_selected'
             /\ current_content' = None
             /\ scroll' = 0
             /\ Frame(App)'.page = Some([text |-> None, scroll |-> 0]))]_vars

\* C9 witness: Esc has just been handled and the frame to draw is that of
\* Normal mode on the Results tab, with the scroll offset and the cached
\* body of the closed article left behind in the locals
C9_Witness ==
    /\ main_pc = "draw"
    /\ handled = Some("Esc")
    /\ Normal
    /\ active_menu_item = "Results"
    /\ scroll > 0
    /\ current_content # None

\* C10: once main has dropped rx the pump thread does not panic.
C10_PumpEndsSilently == pump # "send_panicked"

\* C11: the channel is first in, first out between the pump and the main
\* loop.  The pump only appends at the tail; the main loop only takes the
\* head, handles exactly that message and leaves the rest in order; a draw
\* (with the fetch it may make) leaves the queued messages as they are.
\* The search call is made inside the handling of Enter, after recv has
\* returned, so what the pump sends meanwhile is appended behind the rest.
C11_ChannelIsFifo ==
    [][/\ (main_pc = "recv" /\ main_pc' # "recv" /\ chan # <<>>) =>
            (/\ handled' = Some(Head(chan))
             /\ main_pc' = "draw" => chan' = Tail(chan))
       /\ (main_pc = "draw" /\ main_pc' = "recv") => chan' = chan
       /\ (main_pc' = main_pc /\ chan' # chan) =>
            (\E msg \in Event : chan' = Append(chan, msg))]_vars

\* C11 witness: an article is open and fetched; Down was taken from the
\* channel and handled while Esc, sent after it, still waits behind it
C11_Witness ==
    /\ main_pc = "draw"
    /\ is_selected
    /\ handled = Some("Down")
    /\ scroll = 1
    /\ chan = <<"Esc">>
    /\ current_content # None

(***************************************************************************)
(* The text pipeline of fetch_html, from the output of html2text on.       *)
(* A text is a sequence of characters, each a string of length one.        *)
(* Regular expressions are trees, matched as the regex crate matches:      *)
(* the leftmost match, the first alternative that matches, greedy          *)
(* repetition.                                                             *)
(***************************************************************************)

\* character classes of the patterns
Digits == {"0", "1", "2", "3", "4", "5", "6", "7", "8", "9"}
Spaces == {" ", "\n", "\t", "\r"}
Letters ==
    {"a", "b", "c", "d", "e", "f", "g", "h", "i", "j", "k", "l", "m", "n", "o", "p", "q",
     "r", "s", "t", "u", "v", "w", "x", "y", "z", "A", "B", "C", "D", "E", "F", "G", "H",
     "I", "J", "K", "L", "M", "N", "O", "P", "Q", "R", "S", "T", "U", "V", "W", "X", "Y", "Z"}
WordChars == Letters \cup Digits \cup {"_"}

\* does the class hold the character: \d, \s, \W, . (all but newline), [\s\S]
InClass(class, c) ==
    CASE class = "digit" -> c \in Digits
      [] class = "space" -> c \in Spaces
      [] class = "nonword" -> c \notin WordChars
      [] class = "dot" -> c # "\n"
      [] class = "any" -> TRUE

\* pattern constructors
Eps == <<"eps">>
Lit(c) == <<"lit", c>>
Cls(class) == <<"cls", class>>
Cat(a, b) == <<"cat", a, b>>
Alt(a, b) == <<"alt", a, b>>
Star(a) == <<"star", a>>
Plus(a) == Cat(a, Star(a))
Opt(a) == Alt(a, Eps)

RECURSIVE Word(_)
\* the pattern of a literal word
Word(w) == IF Len(w) = 0 THEN Eps ELSE IF Len(w) = 1 THEN Lit(w[1]) ELSE Cat(Lit(w[1]), Word(Tail(w)))

RECURSIVE Ends(_, _, _), EndsFrom(_, _, _)
\* the positions just past the matches of pattern re in str that start at
\* position i, in the order the matcher prefers them
Ends(re, str, i) ==
    CASE re[1] = "eps" -> <<i>>
      [] re[1] = "lit" -> IF i <= Len(str) /\ str[i] = re[2] THEN <<i + 1>> ELSE <<>>
      [] re[1] = "cls" -> IF i <= Len(str) /\ InClass(re[2], str[i]) THEN <<i + 1>> ELSE <<>>
      [] re[1] = "cat" -> EndsFrom(re[3], str, Ends(re[2], str, i))
      [] re[1] = "alt" -> Ends(re[2], str, i) \o Ends(re[3], str, i)
      [] re[1] = "star" ->
            LET once == SelectSeq(Ends(re[2], str, i), LAMBDA e : e > i)
            IN  EndsFrom(re, str, once) \o <<i>>

\* Ends from each of the positions starts, in order
EndsFrom(re, str, starts) ==
    IF starts = <<>> THEN <<>>
    ELSE Ends(re, str, Head(starts)) \o EndsFrom(re, str, Tail(starts))

RECURSIVE ReplaceFrom(_, _, _)
\* Regex::replace_all(str, "") from position i on: a match that starts at i
\* is dropped, any other character is kept
ReplaceFrom(re, str, i) ==
    IF i > Len(str) THEN <<>>
    ELSE LET ends == SelectSeq(Ends(re, str, i), LAMBDA e : e > i)
         IN  IF ends # <<>>
             THEN ReplaceFrom(re, str, ends[1])
             ELSE <<str[i]>> \o ReplaceFrom(re, str, i + 1)

\* re.replace_all(&text, "")
ReplaceAll(re, str) == ReplaceFrom(re, str, 1)

\* (\[)+\d*(\])|(edit)+|\[|\]|(https:)?(/.*/.*)+[\s\S]|#+\s\W
MarkupRe ==
    Alt(Cat(Plus(Lit("[")), Cat(Star(Cls("digit")), Lit("]"))),
    Alt(Plus(Word(<<"e", "d", "i", "t">>)),
    Alt(Lit("["),
    Alt(Lit("]"),
    Alt(Cat(Opt(Word(<<"h", "t", "t", "p", "s", ":">>)),
            Cat(Plus(Cat(Lit("/"), Cat(Star(Cls("dot")), Cat(Lit("/"), Star(Cls("dot")))))),
                Cls("any"))),
        Cat(Plus(Lit("#")), Cat(Cls("space"), Cls("nonword"))))))))

\* \d\s
DigitSpaceRe == Cat(Cls("digit"), Cls("space"))

\* let cleaned = re.replace_all(&text, "")
Cleaned(str) == ReplaceAll(MarkupRe, str)

\* let removed_single_digit = a.replace_all(&cleaned, "")
RemovedSingleDigit(str) == ReplaceAll(DigitSpaceRe, str)

\* most pieces an article text is put together from
MaxPieces == 4

\* "## Contents", the heading of the table of contents
ContentsMarker == <<"#", "#", " ", "C", "o", "n", "t", "e", "n", "t", "s">>

\* "## ", what the code takes for the start of the next heading
HeadingMarker == <<"#", "#", " ">>

\* the pieces article texts are put together from: single characters, the
\* Contents heading, a line with a third-level heading and a line with a
\* second-level heading
Pieces ==
    {<<"1">>, <<" ">>, <<"a">>, <<"[">>, <<"\n">>,
     ContentsMarker,
     <<"\n", "#", "#", "#", " ", "S">>,
     <<"\n", "#", "#", " ", "B">>}

RECURSIVE Flatten(_)
\* the pieces joined into one text
Flatten(pieces) == IF pieces = <<>> THEN <<>> ELSE Head(pieces) \o Flatten(Tail(pieces))

\* the texts html2text may hand to the rest of fetch_html
Texts == {Flatten(ps) : ps \in SeqsUpTo(Pieces, MaxPieces)}

\* is pat found in str at position i
OccursAt(str, pat, i) ==
    /\ i >= 1
    /\ i + Len(pat) - 1 <= Len(str)
    /\ \A k \in 1..Len(pat) : str[i + k - 1] = pat[k]

\* str[from..].find(pat): the first position at or after from where pat is
\* found, as Some(position in str), or None
Find(str, pat, from) ==
    LET found == {i \in from..Len(str) : OccursAt(str, pat, i)}
    IN  IF found = {} THEN None ELSE Some(CHOOSE i \in found : \A j \in found : i <= j)

\* the Contents removal at the end of fetch_html: everything from
\* "## Contents" up to the next "## " found after it is cut out; the
\* unwrap panics when there is none
RemoveContents(str) ==
    LET contents_start == Find(str, ContentsMarker, 1)
    IN  IF contents_start = None THEN [ok |-> TRUE, text |-> str]
        ELSE LET i == contents_start[1]
                 end_index == Find(str, HeadingMarker, i + Len(ContentsMarker))
             IN  IF end_index = None THEN [ok |-> FALSE, text |-> str]
                 ELSE [ok |-> TRUE,
                       text |-> SubSeq(str, 1, i - 1) \o SubSeq(str, end_index[1], Len(str))]

\* nothing of main moves while fetch_html runs
MainUnchanged ==
    UNCHANGED <<search_mode, active_menu_item, search_string, selected, current_search_results,
                is_selected, scroll, current_content, raw_mode, main_pc, fault, chan, pump,
                handled, fetches, searched>>

\* fetch_html has the plain text of some article from html2text
InitPipeline ==
    /\ raw_mode = TRUE
    /\ search_mode = FALSE
    /\ chan = <<>>
    /\ pump = "running"
    /\ active_menu_item = "Home"
    /\ search_string = <<>>
    /\ selected = Some(0)
    /\ current_search_results = <<>>
    /\ is_selected = FALSE
    /\ scroll = 0
    /\ current_content = None
    /\ main_pc = "draw"
    /\ fault = "none"
    /\ handled = None
    /\ fetches = <<>>
    /\ searched = None
    /\ text \in Texts
    /\ stage = "text"

\* let cleaned = re.replace_all(&text, "")
StripMarkup ==
    /\ stage = "text"
    /\ text' = Cleaned(text)
    /\ stage' = "cleaned"
    /\ MainUnchanged

\* let removed_single_digit = a.replace_all(&cleaned, "")
StripDigits ==
    /\ stage = "cleaned"
    /\ text' = RemovedSingleDigit(text)
    /\ stage' = "removed_single_digit"
    /\ MainUnchanged

\* the match on contents_start, then Ok(removed_contents) or the panic of
\* the unwrap
CutContents ==
    /\ stage = "removed_single_digit"
    /\ LET res == RemoveContents(text)
       IN  /\ text' = res.text
           /\ stage' = IF res.ok THEN "returned" ELSE "panicked"
    /\ MainUnchanged

NextPipeline == StripMarkup \/ StripDigits \/ CutContents

\* the steps of fetch_html after html2text, on every text of Texts
SpecPipeline == InitPipeline /\ [][NextPipeline]_vars

\* C12: the markup-stripping steps are idempotent: run again on their own
\* output they change nothing.
C12_StripIdempotent ==
    stage = "removed_single_digit" => RemovedSingleDigit(Cleaned(text)) = text

\* a second-level heading starts at position j: "## " that is not the tail
\* of a longer run of "#"
TopHeadingAt(str, j) ==
    /\ OccursAt(str, HeadingMarker, j)
    /\ j = 1 \/ str[j - 1] # "#"

\* the first second-level heading at or after from, as Some(position) or None
NextTopHeading(str, from) ==
    LET found == {j \in from..Len(str) : TopHeadingAt(str, j)}
    IN  IF found = {} THEN None ELSE Some(CHOOSE j \in found : \A k \in found : j <= k)

\* C13: when the text has the Contents heading and a later top-level heading,
\* the Contents removal returns the text before the Contents heading followed
\* by the text from that next top-level heading on, and nothing in between.
C13_CutEndsAtTopHeading ==
    [][(/\ stage = "removed_single_digit"
        /\ Find(text, ContentsMarker, 1) # None
        /\ NextTopHeading(text, Find(text, ContentsMarker, 1)[1] + Len(ContentsMarker)) # None) =>
            LET i == Find(text, ContentsMarker, 1)[1]
                j == NextTopHeading(text, i + Len(ContentsMarker))[1]
            IN  /\ stage' = "returned"
                /\ text' = SubSeq(text, 1, i - 1) \o SubSeq(text, j, Len(text))]_vars

C15_EscapeGivesNormal ==
    [][(Searching /\ Handles("Esc")) =>
          (/\ ~search_mode' /\ ~is_selected'
           /\ search_string' = search_string)]_vars

\* C16: the query changes only by a character key or Backspace handled in
\* the search box: a character is appended, Backspace drops the last
\* character and does nothing on an empty query; every other step, in every
\* mode, leaves the query as it was.
C16_QueryEditedOnlyInSearchBox ==
    [][/\ \A c \in CharKeys :
            (Searching /\ Handles(c)) => search_string' = Append(search_string, c)
       /\ (Searching /\ Handles("Backspace")) =>
            search_string' = (IF search_string = <<>> THEN <<>>
                              ELSE SubSeq(search_string, 1, Len(search_string) - 1))
       /\ ~(Searching /\ \E k \in CharKeys \cup {"Backspace"} : Handles(k)) =>
            search_string' = search_string]_vars

\* C16 witness: Backspace in the search box has just dropped the second
\* character of the query of an earlier search
C16_Witness ==
    /\ main_pc = "draw"
    /\ handled = Some("Backspace")
    /\ Searching
    /\ Len(search_string) = 1
    /\ current_search_results # <<>>

\* C17: the main loop alternates between drawing a frame and handling one
\* message: a message leaves the channel only in a step of the loop that is
\* at recv, that step takes exactly the oldest message and goes on to draw
\* (or ends main), the frame of the message handled before has been drawn
\* by then, and a draw step takes nothing from the channel.
C17_DrawAndRecvAlternate ==
    [][/\ (MainRunning' /\ Len(chan') < Len(chan)) =>
            (/\ main_pc = "recv" /\ handled = None
             /\ main_pc' = "draw"
             /\ handled' = Some(Head(chan))
             /\ chan' = Tail(chan))
       /\ (handled' # handled /\ handled' # None) =>
            (main_pc = "recv" /\ handled = None /\ main_pc' # "recv")
       /\ (main_pc = "draw" /\ main_pc' # "draw") =>
            (/\ handled' = None
             /\ main_pc' \in {"recv", "error", "panicked"}
             /\ main_pc' = "recv" => chan' = chan)]_vars

\* C17 witness: the Tick taken from the channel is waiting for its frame
\* in the search box while two more messages are queued behind it
C17_Witness ==
    /\ main_pc = "draw"
    /\ handled = Some(Tick)
    /\ Len(chan) = 2
    /\ search_mode

\* C18: while an article is read, every Down raises the scroll offset by
\* exactly 1, however large the offset is, and the loop goes on; every Up
\* lowers it by 1, but not below 0.
C18_ScrollUnbounded ==
    [][/\ (Reading /\ Handles("Down")) => (scroll' = scroll + 1 /\ main_pc' = "draw")
       /\ (Reading /\ Handles("Up")) =>
            (scroll' = (IF scroll > 0 THEN scroll - 1 ELSE 0) /\ main_pc' = "draw")]_vars

\* C19: in the search box the keys q, h, r and s are only appended to the
\* query: the program goes on, and the tab and the mode stay; outside the
\* search box, with or without an opened article, h selects the Home tab and
\* r the Results tab, and the mode, the result list, the selected index, the
\* opened article and the scroll offset stay.
C19_KeysGatedByMode ==
    [][/\ \A c \in CharKeys :
            (Searching /\ Handles(c)) =>
                (/\ search_string' = Append(search_string, c)
                 /\ main_pc' = "draw"
                 /\ UNCHANGED <<search_mode, is_selected, active_menu_item, raw_mode,
                                current_search_results, selected, scroll, current_content>>)
       /\ \A c \in {"h", "r"} :
            (~Searching /\ Handles(c)) =>
                (/\ active_menu_item' = (IF c = "h" THEN "Home" ELSE "Results")
                 /\ main_pc' = "draw"
                 /\ UNCHANGED <<search_mode, is_selected, search_string, raw_mode,
                                current_search_results, selected, scroll, current_content>>)]_vars

\* C19 witness: h was pressed over an opened, scrolled article: the Home
\* tab is active and the article is still open
C19_Witness ==
    /\ main_pc = "draw"
    /\ handled = Some("h")
    /\ Reading
    /\ active_menu_item = "Home"
    /\ scroll = 1
    /\ current_content # None

\* C20: while an article stays open the result list and the selected index
\* do not change, and whenever an article is open and a body is cached, the
\* body is the one fetched for the hit under the cursor.
C20_ShownBodyIsOfSelectedHit ==
    [][/\ (is_selected /\ is_selected') =>
            UNCHANGED <<current_search_results, selected>>
       /\ (is_selected' /\ current_content' # None) =>
            (/\ selected' # None
             /\ selected'[1] < Len(current_search_results')
             /\ current_content' =
                    Some(ArticleText(current_search_results'[selected'[1] + 1])))]_vars

\* C20 witness: after the first hit was read and closed, the second hit was
\* opened and scrolled, and its frame shows the body fetched for it
C20_Witness ==
    /\ main_pc = "recv"
    /\ Reading
    /\ active_menu_item = "Results"
    /\ selected = Some(1)
    /\ Len(current_search_results) = 2
    /\ scroll = 1
    /\ current_content = Some(ArticleText(current_search_results[2]))

====
